---- MODULE Spec2Model ----
(***************************************************************************)
(* Route-history playback of the vehicle tracking client                   *)
(* (src/app/(root)/(tabs)/history.tsx).  The file holds two revisions of   *)
(* the History screen: the current one (lines 1-1305) and an older one     *)
(* (lines 1307-2270).  Both are modelled; the variable `revision` says     *)
(* which screen is running.                                                *)
(*                                                                         *)
(* Numbers.  The playhead is a fraction of an index: it is kept in units   *)
(* of 1/PosScale of an index.  The playback speed is kept in tenths (the   *)
(* code rounds it with toFixed(1)).  Frame times are counted in units of   *)
(* FrameMs milliseconds and measured from the frame time recorded last,    *)
(* so a recorded lastFrameTimeRef is always 0.  Coordinates are metres on  *)
(* a local grid, in units of 1/CoordScale of a metre.  Courses are whole   *)
(* degrees, timestamps whole seconds after the epoch.  null, NaN and       *)
(* undefined are Null, NaN and Undefined.                                  *)
(*                                                                         *)
(* Beside the screen, the module models interpolateBearing called on its   *)
(* own, and two helpers of src/lib/theme.ts with the effects that use      *)
(* them: startLocationPolling (tracking.tsx, home_old.tsx) and the cached  *)
(* useFetch.  Each has its own variables, actions and specification.       *)
(***************************************************************************)
EXTENDS Integers, Sequences, FiniteSets, TLC

VARIABLES
    revision,            \* "current" (lines 140-1305) or "older" (lines 1515-2270)
    selectedDevice,      \* useDeviceStore: a device is selected
    loading,             \* useState(false)
    error,               \* useState(null): "none", "select" or "failed"
    routeData,           \* useState(null)
    routeLineData,       \* useState(null)
    movingPoints,        \* useState([])
    controlsExpanded,    \* useState(true), current revision only
    playbackPosition,    \* useState(0)
    playbackPositionRef, \* useRef(0)
    isPlaying,           \* useState(false)
    playbackSpeed,       \* useState(1), in tenths
    isScrubbing,         \* useState(false)
    progressWidth,       \* useState(0)
    speedWidth,          \* useState(0)
    lastFrameTimeRef,    \* useRef(null)
    animationFrame,      \* the pending requestAnimationFrame callback and what its closure holds
    pendingFrames,       \* how many callbacks of the playback loop wait for the next animation frame
    smoothedCourse,      \* smoothedCourseRef = useRef(null); older revision: useState(null)
    displayCourseDep,    \* current revision: the dependency the displayCourse memo saw last
    lastOp,              \* history: the handler that ran last
    lastArg,             \* history: its input (a touch position, a frame time, how a load settled)
    lastFrom,            \* history: the playhead and playing flag it started from
    bearingFrom,         \* interpolateBearing: the argument from
    bearingTo,           \* interpolateBearing: the argument to
    bearingT,            \* interpolateBearing: the argument t, in hundredths
    bearingResult,       \* interpolateBearing: what the call returned, Null before it
    trackedDevice,       \* polling screens: device?.id (tracking.tsx), selectedDevice (home_old.tsx)
    interval,            \* startLocationPolling: the device of the running setInterval, Null when cleared
    inFlight,            \* startLocationPolling: the polls between their fetch and their callback
    currentLocation,     \* useDeviceStore: the device whose location is stored, Null for none
    pollOp,              \* polling: the step that ran last
    pollDevice,          \* polling: the device of the poll that step was about
    url,                 \* useFetch: the url of the last render
    data,                \* useFetch: useState(null), the url whose answer it holds
    fetchLoading,        \* useFetch: loading
    fetchError,          \* useFetch: error
    cache,               \* useFetch: the module's cache, the age of the entry of each url
    requests,            \* useFetch: the urls whose fetchAPI call has not settled
    fetchOp,             \* useFetch: the step that ran last
    fetchIssued          \* useFetch: whether that step called fetchAPI

vars == <<revision, selectedDevice, loading, error, routeData,
          routeLineData, movingPoints, controlsExpanded, playbackPosition,
          playbackPositionRef, isPlaying, playbackSpeed, isScrubbing,
          progressWidth, speedWidth, lastFrameTimeRef, animationFrame, pendingFrames,
          smoothedCourse, displayCourseDep, lastOp, lastArg, lastFrom,
          bearingFrom, bearingTo, bearingT, bearingResult,
          trackedDevice, interval, inFlight, currentLocation, pollOp, pollDevice,
          url, data, fetchLoading, fetchError, cache, requests, fetchOp,
          fetchIssued>>

\* the state of the History screen
historyVars ==
    <<revision, selectedDevice, loading, error, routeData, routeLineData,
      movingPoints, controlsExpanded, playbackPosition, playbackPositionRef,
      isPlaying, playbackSpeed, isScrubbing, progressWidth, speedWidth,
      lastFrameTimeRef, animationFrame, pendingFrames, smoothedCourse, displayCourseDep,
      lastOp, lastArg, lastFrom>>

\* a call of interpolateBearing on its own
bearingVars == <<bearingFrom, bearingTo, bearingT, bearingResult>>

\* the screens that poll the location of a device
pollVars == <<trackedDevice, interval, inFlight, currentLocation, pollOp, pollDevice>>

\* one mounted useFetch hook and the cache of its module
fetchVars ==
    <<url, data, fetchLoading, fetchError, cache, requests, fetchOp, fetchIssued>>

\* what no handler of the History screen touches
otherVars == <<bearingVars, pollVars, fetchVars>>

\* Values of the code that are no finite number; every coordinate, course,
\* speed, time, device and url of the model is >= 0.
Null == 0 - 1
NaN == 0 - 2
Undefined == 0 - 3

\* ---- units ----
\* playhead units per index
PosScale == 4 * 5
\* coordinate units per metre
CoordScale == 6 * 10
\* milliseconds per unit of frame time
FrameMs == 1000 \div 4

\* 10 s, the step of the clock that ages the cache of useFetch
ClockStepMs == 10 * 1000

\* ---- bounds of the model ----
\* longest gap between two frames, in units of FrameMs
MaxFrameGap == 2
\* the laid-out width of both sliders
SliderWidth == 4
\* how far outside a slider a touch can land
TouchOvershoot == 1

FrameTimes == 0..MaxFrameGap

\* the devices a screen can track and the urls a hook can be rendered with
Devices == {1, 2}
Urls == {1, 2}
LocationXs == (0 - TouchOvershoot)..(SliderWidth + TouchOvershoot)

Min(a, b) == IF a <= b THEN a ELSE b
Max(a, b) == IF a >= b THEN a ELSE b
Abs(a) == IF a >= 0 THEN a ELSE 0 - a

\* ------------------------------------------------------------------------
\* Geodesy and track helpers (pure functions of history.tsx)
\* ------------------------------------------------------------------------

\* floor of the square root of n >= 0
ISqrt(n) == CHOOSE r \in 0..n : r * r <= n /\ (r + 1) * (r + 1) > n

\* Great-circle distance, for points of the local metric grid, where it is the
\* straight-line distance (in coordinate units, rounded down).
haversineMeters(a, b) ==
    IF a[1] = b[1] THEN Abs(b[2] - a[2])
    ELSE IF a[2] = b[2] THEN Abs(b[1] - a[1])
    ELSE ISqrt((b[1] - a[1]) * (b[1] - a[1]) + (b[2] - a[2]) * (b[2] - a[2]))

\* Initial bearing from `from` to `to` in degrees, for the eight compass
\* directions of the grid; atan2(0, 0) is 0, so equal points give 0.
bearingDegrees(from, to) ==
    LET dx == to[1] - from[1]
        dy == to[2] - from[2]
    IN  IF dx = 0 /\ dy >= 0 THEN 0
        ELSE IF dx = 0 THEN 180
        ELSE IF dy = 0 /\ dx > 0 THEN 90
        ELSE IF dy = 0 THEN 270
        ELSE IF dx > 0 /\ dy > 0 THEN 45
        ELSE IF dx > 0 THEN 135
        ELSE IF dy < 0 THEN 225
        ELSE 315

\* Number(null) is 0; Number(undefined) is NaN, which is not finite
toNumberOrNull(value) ==
    IF value = Null THEN 0
    ELSE IF value = Undefined \/ value = NaN THEN Null
    ELSE value

\* a ?? b
Nullish(a, b) == IF a = Null \/ a = Undefined THEN b ELSE a

\* the steps of one segment: the synthetic points pushed after `start`
SegmentPoints(start, end, stepUnits) ==
    LET dist == haversineMeters(start, end)
        steps == dist \div stepUnits
    IN  IF dist <= stepUnits THEN <<>>
        ELSE [s \in 1..(steps - 1) |->
                 <<start[1] + ((end[1] - start[1]) * s) \div steps,
                   start[2] + ((end[2] - start[2]) * s) \div steps>>]

\* interpolateLine without the push of the last vertex after the loop
RECURSIVE InterpolateFromNoLast(_, _, _)
InterpolateFromNoLast(coords, i, stepUnits) ==
    IF i > Len(coords) - 1 THEN <<>>
    ELSE <<coords[i]>> \o SegmentPoints(coords[i], coords[i + 1], stepUnits)
                       \o InterpolateFromNoLast(coords, i + 1, stepUnits)

RECURSIVE InterpolateFrom(_, _, _)
InterpolateFrom(coords, i, stepUnits) ==
    IF i > Len(coords) - 1 THEN <<coords[Len(coords)]>>
    ELSE <<coords[i]>> \o SegmentPoints(coords[i], coords[i + 1], stepUnits)
                       \o InterpolateFrom(coords, i + 1, stepUnits)

interpolateLine(coords, stepMeters) ==
    IF Len(coords) <= 1 THEN coords
    ELSE InterpolateFrom(coords, 1, stepMeters * CoordScale)

\* a point feature: coordinates and the three properties the screen reads
Feature(coord, ts, sp, co) ==
    [coordinates |-> coord, timestamp |-> ts, speed |-> sp, course |-> co]

\* "Calculate bearing between consecutive points if not provided"
withBearing(features) ==
    [idx \in 1..Len(features) |->
        LET feature == features[idx]
            given == toNumberOrNull(feature.course)
            course == IF given = Null /\ idx < Len(features)
                      THEN bearingDegrees(feature.coordinates, features[idx + 1].coordinates)
                      ELSE given
        IN  [feature EXCEPT !.course = Nullish(course, 0)]]

\* coordinates.every(value => typeof value === "number"): NaN is a number
IsNumberPair(coord) == \A k \in 1..Len(coord) : coord[k] # Null /\ coord[k] # Undefined

RECURSIVE SelectNumberPairs(_)
SelectNumberPairs(features) ==
    IF features = <<>> THEN <<>>
    ELSE IF IsNumberPair(Head(features).coordinates)
         THEN <<Head(features)>> \o SelectNumberPairs(Tail(features))
         ELSE SelectNumberPairs(Tail(features))

\* array[idx], undefined past the end
At(array, idx) == IF idx <= Len(array) THEN array[idx] ELSE Undefined

\* ------------------------------------------------------------------------
\* What the three requests of handleLoadRoute can answer
\* ------------------------------------------------------------------------

North(metres) == <<0, metres * CoordScale>>

TrackA ==
    <<Feature(North(0), 0, 0, 0),
      Feature(North(4), 10, 40, Undefined),
      Feature(North(8), 20, 20, 0)>>

TrackB == <<Feature(North(0), 5, 10, Null), Feature(North(4), 15, 30, Undefined)>>

TrackC == <<Feature(North(2), 7, 10, 0)>>

Rejected == [status |-> "rejected", features |-> <<>>]
Collection(features) == [status |-> "fulfilled", features |-> features]

NoLine ==
    [status |-> "rejected", type |-> "none", coordinates |-> <<>>, speeds |-> <<>>,
     courses |-> <<>>, timestamps |-> <<>>]
Line(type, coordinates, speeds, courses, timestamps) ==
    [status |-> "fulfilled", type |-> type, coordinates |-> coordinates,
     speeds |-> speeds, courses |-> courses, timestamps |-> timestamps]

Response(route, history, historyIsArray, line) ==
    [route |-> route, history |-> history, historyIsArray |-> historyIsArray,
     line |-> line]

Responses ==
    { Response(Collection(TrackA), Collection(TrackA), FALSE, NoLine),
      Response(Collection(TrackB), Collection(<<>>), FALSE,
               Line("Feature", <<North(0), North(12)>>, <<>>, <<>>, <<>>)),
      Response(Collection(TrackC), Collection(TrackC), FALSE,
               Line("FeatureCollection", <<>>, <<>>, <<>>, <<>>)),
      Response(Collection(<<>>), Collection(<<>>), FALSE,
               Line("other", <<>>, <<>>, <<>>, <<>>)),
      Response(Collection(TrackB), Collection(<<>>), FALSE,
               Line("LineString", <<North(0), <<0, Null>>, North(3)>>,
                    <<10, Null>>, <<NaN, 45>>, <<1, 2, 3>>)),
      Response(Collection(TrackA), Collection(TrackA), TRUE, NoLine),
      Response(Rejected, Collection(TrackA), FALSE, NoLine),
      Response(Collection(TrackA), Rejected, FALSE,
               Line("Feature", <<North(0), North(12)>>, <<>>, <<>>, <<>>)) }

\* Answers with courses, speeds and timestamps of every kind, for the
\* sampling, the normalisation and the summary of a track
East(metres) == <<metres * CoordScale, 0>>

\* two fixes 4 m apart, 10 s apart, from rest to speed 40, heading north
ScenarioTrack == <<Feature(North(0), 0, 0, 0), Feature(North(4), 10, 40, 0)>>

\* eastwards, then northwards; the first course is null, the second is not
\* reported
TurnTrack ==
    <<Feature(East(0), 5, 10, Null),
      Feature(East(4), 15, 30, Undefined),
      Feature(<<4 * CoordScale, 4 * CoordScale>>, 25, 20, 180)>>

SouthTrack == <<Feature(North(2), 7, 10, 180)>>

\* the first fix reports a course only, the second no course
RawTrack ==
    <<Feature(North(0), Undefined, Undefined, 90),
      Feature(North(4), 15, 30, Undefined)>>

SampleResponses ==
    { Response(Collection(ScenarioTrack), Collection(ScenarioTrack), FALSE, NoLine),
      Response(Collection(TurnTrack), Collection(TurnTrack), FALSE, NoLine),
      Response(Collection(SouthTrack), Collection(SouthTrack), FALSE, NoLine),
      Response(Collection(RawTrack), Collection(<<>>), FALSE, NoLine),
      Response(Collection(<<>>), Collection(<<>>), FALSE,
               Line("Feature", <<North(0), North(12), North(14)>>, <<>>, <<>>, <<>>)),
      Response(Collection(<<>>), Collection(<<>>), FALSE,
               Line("Feature", <<East(0), East(7)>>, <<>>, <<>>, <<>>)),
      Response(Collection(<<>>), Collection(<<>>), FALSE,
               Line("LineString", <<East(0), East(4), East(8)>>,
                    <<10, 20>>, <<Null, Undefined, 45>>, <<1, 2, 3>>)) }

\* Answers that carry points without a position: JSON null where a number is
\* expected, in a history collection, in a LineString, and in every point
NoFixTrack ==
    <<Feature(North(0), 0, 0, 0),
      Feature(<<Null, Null>>, 10, 40, 0),
      Feature(North(8), 20, 20, 0)>>

MalformedResponses ==
    { Response(Collection(NoFixTrack), Collection(NoFixTrack), FALSE, NoLine),
      Response(Collection(<<>>), Collection(<<>>), FALSE,
               Line("LineString", <<North(0), <<0, Null>>, North(3)>>,
                    <<10, 20, 30>>, <<0, 0, 0>>, <<1, 2, 3>>)),
      Response(Collection(<<>>), Collection(<<>>), FALSE,
               Line("LineString", <<<<Null, 0>>, <<0, Null>>>>,
                    <<10, 20>>, <<0, 0>>, <<1, 2>>)),
      Response(Collection(ScenarioTrack), Collection(ScenarioTrack), FALSE, NoLine) }

\* ------------------------------------------------------------------------
\* handleLoadRoute: what a settled load leaves in the component state
\* ------------------------------------------------------------------------

NullRoute == [isNull |-> TRUE, features |-> <<>>]
NullLine == [isNull |-> TRUE, coordinates |-> <<>>]

\* handleLoadRoute that gives up on any rejected request
LoadThrowsOnAnyRejection(resp) ==
    \/ resp.route.status = "rejected"
    \/ resp.history.status = "rejected"
    \/ resp.line.status = "rejected"
    \/ resp.historyIsArray

\* The route or history request was rejected, or the history answer is an
\* array: the code then calls historyResponse.map, and the settled-promise
\* record historyResponse has no map, so a TypeError lands in the catch.
LoadThrows(resp) ==
    \/ resp.route.status = "rejected"
    \/ resp.history.status = "rejected"
    \/ resp.historyIsArray

\* How Promise.allSettled settled, as one number: 1 for a rejected route
\* request, 2 for a rejected history request, 4 for a rejected route-line
\* request, 8 for a history answer that is an array
Settled(resp) ==
    (IF resp.route.status = "rejected" THEN 1 ELSE 0)
    + (IF resp.history.status = "rejected" THEN 2 ELSE 0)
    + (IF resp.line.status = "rejected" THEN 4 ELSE 0)
    + (IF resp.historyIsArray THEN 8 ELSE 0)

\* setRouteLineData(...) for the answer of the route-line request.  For a
\* FeatureCollection, line.coordinates are those of features[0], and an empty
\* list stands for a collection without features.
LoadedRouteLine(line) ==
    IF line.status # "fulfilled" THEN NullLine
    ELSE IF line.type = "Feature" \/ line.type = "LineString"
         THEN [isNull |-> FALSE, coordinates |-> line.coordinates]
    ELSE IF line.type = "FeatureCollection" /\ Len(line.coordinates) > 0
         THEN [isNull |-> FALSE, coordinates |-> line.coordinates]
    ELSE NullLine

\* routeLinePoints of a LineString answer (empty for every other answer)
RouteLinePoints(line) ==
    IF line.status = "fulfilled" /\ line.type = "LineString"
    THEN SelectNumberPairs(
             [idx \in 1..Len(line.coordinates) |->
                 Feature(line.coordinates[idx],
                         At(line.timestamps, idx),
                         Nullish(toNumberOrNull(At(line.speeds, idx)), 0),
                         Nullish(toNumberOrNull(At(line.courses, idx)), Null))])
    ELSE <<>>

FinalMovingPoints(resp) ==
    IF Len(RouteLinePoints(resp.line)) > 0
    THEN withBearing(RouteLinePoints(resp.line))
    ELSE withBearing(resp.history.features)

\* ------------------------------------------------------------------------
\* Values derived on every render
\* ------------------------------------------------------------------------

InterpolateStepMeters == 5

playbackPoints ==
    IF Len(movingPoints) > 0 THEN movingPoints
    ELSE IF ~routeLineData.isNull /\ Len(routeLineData.coordinates) > 0
         THEN LET smoothed == interpolateLine(routeLineData.coordinates, InterpolateStepMeters)
              IN  [k \in 1..Len(smoothed) |->
                      Feature(smoothed[k], Undefined, Undefined, Undefined)]
    ELSE IF ~routeData.isNull /\ Len(routeData.features) > 0 THEN routeData.features
    ELSE <<>>

routeLine ==
    \/ ~routeLineData.isNull /\ Len(routeLineData.coordinates) > 0
    \/ ~routeData.isNull /\ Len(routeData.features) >= 2

routeLoaded == ~routeData.isNull \/ routeLine

\* current revision: the load panel shows while no route is loaded or the
\* controls are expanded; older revision: always
showFullControls == revision = "older" \/ ~routeLoaded \/ controlsExpanded

\* current revision: {routeLoaded && (<playback bar>)}; older revision: always
PlaybackBarShown == revision = "older" \/ routeLoaded

\* ((value % 360) + 360) % 360, in whole degrees
normalizeBearing(value) == ((value % 360) + 360) % 360

\* interpolateBearing without the two corrections of delta
interpolateBearingLongWay(from, to, num, den) ==
    LET start == normalizeBearing(from)
        end == normalizeBearing(to)
    IN  normalizeBearing(start + ((end - start) * num) \div den)

\* interpolateBearing(from, to, t) for t = num / den: the shorter way round,
\* rounded down to a whole degree
interpolateBearing(from, to, num, den) ==
    LET start == normalizeBearing(from)
        end == normalizeBearing(to)
        delta == end - start
        short == IF delta > 180 THEN delta - 360
                 ELSE IF delta < 0 - 180 THEN delta + 360
                 ELSE delta
    IN  normalizeBearing(start + (short * num) \div den)

\* the interpolation taken from the far end: end + (start - end) * t
LerpFromEnd(start, end, num, den) == end + ((start - end) * num) \div den

\* start + (end - start) * t for t = num / den
Lerp(start, end, num, den) == start + ((end - start) * num) \div den

\* the index rounded to the nearest point in place of Math.floor
SampleIndexRounded(points, position) ==
    Min((2 * position + PosScale) \div (2 * PosScale), Len(points) - 1) + 1

\* Math.min(Math.floor(playbackPosition), playbackPoints.length - 1), as an
\* index of a sequence that starts at 1
SampleIndex(points, position) == Min(position \div PosScale, Len(points) - 1) + 1

\* Math.max(0, Math.min(playbackPosition - index, 1)), in units of 1/PosScale
SampleT(points, position) ==
    Max(0, Min(position - (SampleIndex(points, position) - 1) * PosScale, PosScale))

NoPoint == [isNull |-> TRUE, coordinates |-> <<0, 0>>, course |-> Undefined, speed |-> 0]

\* animatedPoint: the sample at the playhead
animatedPoint(points, position) ==
    IF Len(points) = 0 THEN NoPoint
    ELSE LET index == SampleIndex(points, position)
             nextIndex == Min(index + 1, Len(points))
             start == points[index].coordinates
             end == points[nextIndex].coordinates
             t == SampleT(points, position)
             startCourse == toNumberOrNull(points[index].course)
             endCourse == toNumberOrNull(points[nextIndex].course)
             fallbackCourse == bearingDegrees(start, end)
             startSpeed == Nullish(toNumberOrNull(points[index].speed), 0)
             endSpeed == Nullish(toNumberOrNull(points[nextIndex].speed), 0)
         IN  [isNull |-> FALSE,
              coordinates |-> <<Lerp(start[1], end[1], t, PosScale),
                                Lerp(start[2], end[2], t, PosScale)>>,
              course |-> IF startCourse # Null /\ endCourse # Null
                         THEN interpolateBearing(startCourse, endCourse, t, PosScale)
                         ELSE Nullish(startCourse, Nullish(endCourse, fallbackCourse)),
              speed |-> Lerp(startSpeed, endSpeed, t, PosScale)]

\* a timestamp that passes `if (firstTs && lastTs)`: undefined, null, NaN
\* and the number 0 do not.  A timestamp k is the instant k seconds after the
\* epoch.
Truthy(ts) == ts # Undefined /\ ts # Null /\ ts # NaN /\ ts # 0

\* the loop of routeSummary: the distances of the pairs i, i+1 and after
RECURSIVE PathLength(_, _)
PathLength(points, i) ==
    IF i > Len(points) - 1 THEN 0
    ELSE haversineMeters(points[i].coordinates, points[i + 1].coordinates)
             + PathLength(points, i + 1)

NoSummary == [isNull |-> TRUE, durationSec |-> 0, distanceKm |-> 0, pointCount |-> 0]

\* routeSummary (current revision); distanceKm is kept in coordinate units
routeSummary(points) ==
    IF Len(points) = 0 THEN NoSummary
    ELSE LET firstTs == points[1].timestamp
             lastTs == points[Len(points)].timestamp
         IN  [isNull |-> FALSE,
              durationSec |-> IF Truthy(firstTs) /\ Truthy(lastTs)
                              THEN lastTs - firstTs ELSE 0,
              distanceKm |-> PathLength(points, 1),
              pointCount |-> Len(points)]

\* ------------------------------------------------------------------------
\* Playback engine
\* ------------------------------------------------------------------------

MinSpeedTenths == 5
MaxSpeedTenths == 30
InitialSpeedTenths == 10
BasePointsPerSecondCurrent == 2
BasePointsPerSecondOlder == 12

basePointsPerSecond ==
    IF revision = "current" THEN BasePointsPerSecondCurrent ELSE BasePointsPerSecondOlder

NoFrame == [pending |-> FALSE, len |-> 0, speed |-> 0]
Frame(len, speed) == [pending |-> TRUE, len |-> len, speed |-> speed]
NoFrom == [position |-> 0, playing |-> FALSE]
From == [position |-> playbackPosition, playing |-> isPlaying]

\* Math.min(Math.max(locationX / width, 0), 1), as a numerator over width
ClampRatio(locationX, width) == Min(Max(locationX, 0), width)

\* Number((num / den).toFixed(1)) in tenths: the nearest tenth, the larger
\* one of two equally near
ToFixed1(num, den) == (20 * num + den) \div (2 * den)

\* handleSpeedTouch without the clamp of the ratio
NextSpeedUnclamped(locationX, width) ==
    ToFixed1(MinSpeedTenths * width + locationX * (MaxSpeedTenths - MinSpeedTenths),
             10 * width)

\* handleSpeedTouch: minSpeed + ratio * (maxSpeed - minSpeed), rounded
NextSpeed(locationX, width) ==
    LET ratio == ClampRatio(locationX, width)
    IN  ToFixed1(MinSpeedTenths * width + ratio * (MaxSpeedTenths - MinSpeedTenths),
                 10 * width)

\* handleProgressTouch without the upper clamp of the ratio
SeekIndexNoUpperClamp(locationX, width, len) ==
    (Max(locationX, 0) * (len - 1) * PosScale) \div width

\* handleProgressTouch: ratio * (playbackPoints.length - 1)
SeekIndex(locationX, width, len) ==
    (ClampRatio(locationX, width) * (len - 1) * PosScale) \div width

\* tick that ignores the playback speed
TickIncrementNoRate(deltaUnits, base, speed) ==
    (deltaUnits * FrameMs * base * InitialSpeedTenths * PosScale) \div (1000 * 10)

\* tick whose increment is always 0
TickIncrementStalls(deltaUnits, base, speed) == 0

\* tick: deltaSeconds * basePointsPerSecond * playbackSpeed
TickIncrement(deltaUnits, base, speed) ==
    (deltaUnits * FrameMs * base * speed * PosScale) \div (1000 * 10)

\* tick that compares with the length instead of the last index
ReachesEndOffByOne(nextPosition, len) == nextPosition >= len * PosScale

\* tick that runs on when it lands exactly on the last index
ReachesEndStrict(nextPosition, len) == nextPosition > (len - 1) * PosScale

\* tick: nextPosition >= playbackPoints.length - 1
ReachesEnd(nextPosition, len) == nextPosition >= (len - 1) * PosScale

\* play button that rewinds only beyond the last index
PlayRewindsStrict(position, len) == len > 0 /\ position > (len - 1) * PosScale

\* play button: playbackPoints.length && playbackPosition >= playbackPoints.length - 1
PlayRewinds(position, len) == len > 0 /\ position >= (len - 1) * PosScale

\* the playback effect with a cleanup that leaves lastFrameTimeRef alone
PlaybackEffectKeepsFrameTime ==
    LET wasRunning == isPlaying /\ Len(playbackPoints) > 0
        runs == isPlaying' /\ Len(playbackPoints') > 0
        cancelled == IF wasRunning /\ animationFrame.pending THEN 1 ELSE 0
        requested == IF runs THEN 1 ELSE 0
    IN  /\ animationFrame' =
              IF runs THEN Frame(Len(playbackPoints'), playbackSpeed') ELSE NoFrame
        /\ pendingFrames' = pendingFrames - cancelled + requested
        /\ lastFrameTimeRef' = lastFrameTimeRef

\* the playback effect with a cleanup that cancels no frame
PlaybackEffectNoCancel ==
    LET wasRunning == isPlaying /\ Len(playbackPoints) > 0
        runs == isPlaying' /\ Len(playbackPoints') > 0
    IN  /\ animationFrame' =
              IF runs THEN Frame(Len(playbackPoints'), playbackSpeed') ELSE NoFrame
        /\ pendingFrames' = pendingFrames + (IF runs THEN 1 ELSE 0)
        /\ lastFrameTimeRef' = IF wasRunning THEN Null ELSE lastFrameTimeRef

\* The playback effect, deps [isPlaying, playbackPoints, playbackSpeed], after
\* a render in which they changed: the cleanup of the effect that was running
\* cancels the frame its loop requested last (animationFrameId is shared by
\* the effect body, tick and the cleanup) and clears lastFrameTimeRef (an
\* effect that returned early has no cleanup), then the effect requests the
\* first frame of a new loop or returns early.
PlaybackEffect ==
    LET wasRunning == isPlaying /\ Len(playbackPoints) > 0
        runs == isPlaying' /\ Len(playbackPoints') > 0
        cancelled == IF wasRunning /\ animationFrame.pending THEN 1 ELSE 0
        requested == IF runs THEN 1 ELSE 0
    IN  /\ animationFrame' =
              IF runs THEN Frame(Len(playbackPoints'), playbackSpeed') ELSE NoFrame
        /\ pendingFrames' = pendingFrames - cancelled + requested
        /\ lastFrameTimeRef' = IF wasRunning THEN Null ELSE lastFrameTimeRef

\* a load that rewinds the playhead and leaves the playing flag alone
ResetPositionOnly ==
    /\ playbackPosition' = 0
    /\ playbackPositionRef' = 0
    /\ isPlaying' = isPlaying

\* setPlaybackPosition(0); playbackPositionRef.current = 0; setIsPlaying(false)
ResetPlayback ==
    /\ playbackPosition' = 0
    /\ playbackPositionRef' = 0
    /\ isPlaying' = FALSE

\* interpolateBearing(prev, target, 0.15), or the target while nothing is
\* remembered
SmoothedNext(prev, target) ==
    IF prev = Null THEN target ELSE interpolateBearing(prev, target, 15, 100)

\* The smoothing of the marker's course on the render that follows a handler.
\* Current revision: the displayCourse memo runs again when the course of
\* animatedPoint differs from the one it saw last, and writes the ref unless
\* animatedPoint is null.  Older revision: the effect on [animatedPoint] runs
\* when animatedPoint is a new object, which it is when the handler stored
\* new points (stored) or moved the playhead, and the points are not empty.
\* The course of a sample is a finite number, so toNumberOrNull(course) ?? 0
\* is the course itself.
DisplayCourseRender(stored) ==
    IF ~stored /\ playbackPosition' = playbackPosition
    THEN UNCHANGED <<smoothedCourse, displayCourseDep>>
    ELSE \E points \in {playbackPoints'} : \E point \in {animatedPoint(points, playbackPosition')} :
             IF revision = "current"
             THEN /\ displayCourseDep' = point.course
                  /\ smoothedCourse' =
                         IF point.course = displayCourseDep \/ point.isNull
                         THEN smoothedCourse
                         ELSE SmoothedNext(smoothedCourse, point.course)
             ELSE /\ displayCourseDep' = displayCourseDep
                  /\ smoothedCourse' =
                         IF point.isNull THEN smoothedCourse
                         ELSE SmoothedNext(smoothedCourse, point.course)

HistoryInit ==
    /\ revision \in {"current", "older"}
    /\ selectedDevice = FALSE
    /\ loading = FALSE
    /\ error = "none"
    /\ routeData = NullRoute
    /\ routeLineData = NullLine
    /\ movingPoints = <<>>
    /\ controlsExpanded = TRUE
    /\ playbackPosition = 0
    /\ playbackPositionRef = 0
    /\ isPlaying = FALSE
    /\ playbackSpeed = InitialSpeedTenths
    /\ isScrubbing = FALSE
    /\ progressWidth = 0
    /\ speedWidth = 0
    /\ lastFrameTimeRef = Null
    /\ animationFrame = NoFrame
    /\ pendingFrames = 0
    /\ smoothedCourse = Null
    /\ displayCourseDep = Undefined
    /\ lastOp = "init"
    /\ lastArg = 0
    /\ lastFrom = NoFrom

\* no call of interpolateBearing on its own
BearingIdle ==
    bearingFrom = 0 /\ bearingTo = 0 /\ bearingT = 0 /\ bearingResult = Null

\* no device is tracked yet, nothing was polled
PollIdle ==
    /\ trackedDevice = Null /\ interval = Null /\ inFlight = {}
    /\ currentLocation = Null /\ pollOp = "none" /\ pollDevice = Null

\* useFetch after its first render and effect: the cache of the module is
\* empty, so fetchData() has called fetchAPI(url)
FetchMounted ==
    /\ url = 1 /\ data = Null /\ fetchLoading = TRUE /\ fetchError = FALSE
    /\ cache = [u \in Urls |-> Null] /\ requests = {1}
    /\ fetchOp = "mount" /\ fetchIssued = TRUE

Init == HistoryInit /\ BearingIdle /\ PollIdle /\ FetchMounted

\* the effect that selects the first device once the devices are known
SelectDevice ==
    /\ ~selectedDevice
    /\ selectedDevice' = TRUE
    /\ lastOp' = "select" /\ lastArg' = 0 /\ lastFrom' = NoFrom
    /\ UNCHANGED otherVars
    /\ UNCHANGED <<smoothedCourse, displayCourseDep>>
    /\ UNCHANGED <<revision, loading, error, routeData, routeLineData, movingPoints,
                   controlsExpanded, playbackPosition, playbackPositionRef, isPlaying,
                   playbackSpeed, isScrubbing, progressWidth, speedWidth,
                   lastFrameTimeRef, animationFrame,
                   pendingFrames>>

\* handleLoadRoute without a selected device
HandleLoadRouteNoDevice ==
    /\ showFullControls /\ ~loading /\ ~selectedDevice
    /\ error' = "select"
    /\ lastOp' = "load_nodevice" /\ lastArg' = 0 /\ lastFrom' = NoFrom
    /\ UNCHANGED otherVars
    /\ UNCHANGED <<smoothedCourse, displayCourseDep>>
    /\ UNCHANGED <<revision, selectedDevice, loading, routeData, routeLineData,
                   movingPoints, controlsExpanded, playbackPosition,
                   playbackPositionRef, isPlaying, playbackSpeed, isScrubbing,
                   progressWidth, speedWidth, lastFrameTimeRef, animationFrame,
                   pendingFrames>>

\* handleLoadRoute up to its await (the load button is disabled while loading)
HandleLoadRouteStart ==
    /\ showFullControls /\ ~loading /\ selectedDevice
    /\ loading' = TRUE
    /\ error' = "none"
    /\ lastOp' = "load_start" /\ lastArg' = 0 /\ lastFrom' = NoFrom
    /\ UNCHANGED otherVars
    /\ UNCHANGED <<smoothedCourse, displayCourseDep>>
    /\ UNCHANGED <<revision, selectedDevice, routeData, routeLineData, movingPoints,
                   controlsExpanded, playbackPosition, playbackPositionRef, isPlaying,
                   playbackSpeed, isScrubbing, progressWidth, speedWidth,
                   lastFrameTimeRef, animationFrame,
                   pendingFrames>>

\* handleLoadRoute after its await, when nothing throws
HandleLoadRouteLoaded(resp) ==
    /\ loading /\ ~LoadThrows(resp)
    /\ routeData' = [isNull |-> FALSE, features |-> resp.route.features]
    /\ routeLineData' = LoadedRouteLine(resp.line)
    /\ movingPoints' = FinalMovingPoints(resp)
    /\ ResetPlayback
    /\ controlsExpanded' = IF revision = "current" THEN FALSE ELSE controlsExpanded
    /\ loading' = FALSE
    /\ lastOp' = "load_ok" /\ lastArg' = Settled(resp) /\ lastFrom' = From
    /\ UNCHANGED otherVars
    /\ UNCHANGED <<revision, selectedDevice, error, playbackSpeed, isScrubbing,
                   progressWidth, speedWidth>>
    /\ PlaybackEffect
    /\ DisplayCourseRender(TRUE)

\* handleLoadRoute after its await, when it throws: catch and finally
HandleLoadRouteFailed(resp) ==
    /\ loading /\ LoadThrows(resp)
    /\ routeData' = NullRoute
    /\ routeLineData' = NullLine
    /\ movingPoints' = <<>>
    /\ error' = "failed"
    /\ loading' = FALSE
    /\ UNCHANGED <<playbackPosition, playbackPositionRef, isPlaying>>
    /\ lastOp' = "load_failed" /\ lastArg' = Settled(resp) /\ lastFrom' = From
    /\ UNCHANGED otherVars
    /\ UNCHANGED <<revision, selectedDevice, controlsExpanded, playbackSpeed,
                   isScrubbing, progressWidth, speedWidth>>
    /\ PlaybackEffect
    /\ DisplayCourseRender(TRUE)

\* handleChangeRoute (current revision): the back button and the address bar
\* show while a route is loaded and the controls are collapsed
HandleChangeRoute ==
    /\ revision = "current" /\ routeLoaded /\ ~controlsExpanded
    /\ routeData' = NullRoute
    /\ routeLineData' = NullLine
    /\ movingPoints' = <<>>
    /\ ResetPlayback
    /\ error' = "none"
    /\ controlsExpanded' = TRUE
    /\ lastOp' = "change_route" /\ lastArg' = 0 /\ lastFrom' = From
    /\ UNCHANGED otherVars
    /\ UNCHANGED <<revision, selectedDevice, loading, playbackSpeed, isScrubbing,
                   progressWidth, speedWidth>>
    /\ PlaybackEffect
    /\ DisplayCourseRender(TRUE)

\* onLayout of the progress slider
ProgressLayout ==
    /\ PlaybackBarShown /\ progressWidth # SliderWidth
    /\ progressWidth' = SliderWidth
    /\ lastOp' = "layout" /\ lastArg' = 0 /\ lastFrom' = NoFrom
    /\ UNCHANGED otherVars
    /\ UNCHANGED <<smoothedCourse, displayCourseDep>>
    /\ UNCHANGED <<revision, selectedDevice, loading, error, routeData, routeLineData,
                   movingPoints, controlsExpanded, playbackPosition,
                   playbackPositionRef, isPlaying, playbackSpeed, isScrubbing,
                   speedWidth, lastFrameTimeRef, animationFrame,
                   pendingFrames>>

\* onLayout of the speed slider
SpeedLayout ==
    /\ PlaybackBarShown /\ speedWidth # SliderWidth
    /\ speedWidth' = SliderWidth
    /\ lastOp' = "layout" /\ lastArg' = 0 /\ lastFrom' = NoFrom
    /\ UNCHANGED otherVars
    /\ UNCHANGED <<smoothedCourse, displayCourseDep>>
    /\ UNCHANGED <<revision, selectedDevice, loading, error, routeData, routeLineData,
                   movingPoints, controlsExpanded, playbackPosition,
                   playbackPositionRef, isPlaying, playbackSpeed, isScrubbing,
                   progressWidth, lastFrameTimeRef, animationFrame,
                   pendingFrames>>

\* onPress of the play button (disabled while there are no playback points)
PressPlayButton(op) ==
    /\ PlaybackBarShown /\ Len(playbackPoints) > 0
    /\ IF PlayRewinds(playbackPosition, Len(playbackPoints))
       THEN playbackPositionRef' = 0 /\ playbackPosition' = 0
       ELSE UNCHANGED <<playbackPositionRef, playbackPosition>>
    /\ isPlaying' = ~isPlaying
    /\ lastOp' = op /\ lastArg' = 0 /\ lastFrom' = From
    /\ UNCHANGED otherVars
    /\ UNCHANGED <<revision, selectedDevice, loading, error, routeData, routeLineData,
                   movingPoints, controlsExpanded, playbackSpeed, isScrubbing,
                   progressWidth, speedWidth>>
    /\ PlaybackEffect
    /\ DisplayCourseRender(FALSE)

Play == ~isPlaying /\ PressPlayButton("play")

Pause == isPlaying /\ PressPlayButton("pause")

\* handleProgressTouch that sets the state and leaves the ref to the tick
ProgressTouchStateOnly(locationX, grant) ==
    /\ PlaybackBarShown
    /\ IF grant THEN isScrubbing' = TRUE ELSE isScrubbing /\ isScrubbing' = isScrubbing
    /\ IF progressWidth = 0 \/ Len(playbackPoints) = 0
       THEN UNCHANGED playbackPosition
       ELSE playbackPosition' = SeekIndex(locationX, progressWidth, Len(playbackPoints))
    /\ lastOp' = "seek" /\ lastArg' = locationX /\ lastFrom' = NoFrom
    /\ UNCHANGED otherVars
    /\ UNCHANGED <<revision, selectedDevice, loading, error, routeData, routeLineData,
                   movingPoints, controlsExpanded, isPlaying, playbackSpeed,
                   playbackPositionRef, progressWidth, speedWidth, lastFrameTimeRef,
                   animationFrame,
                   pendingFrames>>
    /\ DisplayCourseRender(FALSE)

\* handleProgressTouch, from onResponderGrant (which sets isScrubbing) or
\* onResponderMove (which needs the responder granted)
ProgressTouch(locationX, grant) ==
    /\ PlaybackBarShown
    /\ IF grant THEN isScrubbing' = TRUE ELSE isScrubbing /\ isScrubbing' = isScrubbing
    /\ IF progressWidth = 0 \/ Len(playbackPoints) = 0
       THEN UNCHANGED <<playbackPositionRef, playbackPosition>>
       ELSE LET index == SeekIndex(locationX, progressWidth, Len(playbackPoints))
            IN  playbackPositionRef' = index /\ playbackPosition' = index
    /\ lastOp' = "seek" /\ lastArg' = locationX /\ lastFrom' = NoFrom
    /\ UNCHANGED otherVars
    /\ UNCHANGED <<revision, selectedDevice, loading, error, routeData, routeLineData,
                   movingPoints, controlsExpanded, isPlaying, playbackSpeed,
                   progressWidth, speedWidth, lastFrameTimeRef, animationFrame,
                   pendingFrames>>
    /\ DisplayCourseRender(FALSE)

\* onResponderRelease of the progress slider
ProgressRelease ==
    /\ PlaybackBarShown /\ isScrubbing
    /\ isScrubbing' = FALSE
    /\ lastOp' = "release" /\ lastArg' = 0 /\ lastFrom' = NoFrom
    /\ UNCHANGED otherVars
    /\ UNCHANGED <<smoothedCourse, displayCourseDep>>
    /\ UNCHANGED <<revision, selectedDevice, loading, error, routeData, routeLineData,
                   movingPoints, controlsExpanded, playbackPosition,
                   playbackPositionRef, isPlaying, playbackSpeed, progressWidth,
                   speedWidth, lastFrameTimeRef, animationFrame,
                   pendingFrames>>

\* handleSpeedTouch, from onResponderGrant or onResponderMove of the speed
\* slider (isScrubbingSpeed only colours the speed label and is left out)
SpeedTouch(locationX) ==
    /\ PlaybackBarShown
    /\ playbackSpeed' = IF speedWidth = 0 THEN playbackSpeed
                        ELSE NextSpeed(locationX, speedWidth)
    /\ lastOp' = "speed" /\ lastArg' = locationX /\ lastFrom' = NoFrom
    /\ UNCHANGED otherVars
    /\ UNCHANGED <<smoothedCourse, displayCourseDep>>
    /\ UNCHANGED <<revision, selectedDevice, loading, error, routeData, routeLineData,
                   movingPoints, controlsExpanded, playbackPosition,
                   playbackPositionRef, isPlaying, isScrubbing, progressWidth,
                   speedWidth>>
    /\ IF playbackSpeed' # playbackSpeed
       THEN PlaybackEffect
       ELSE UNCHANGED <<lastFrameTimeRef, animationFrame,
                   pendingFrames>>

\* tick: the pending animation frame fires at `time` and is pending no more;
\* its closure holds the playbackPoints and playbackSpeed of the render that
\* started the loop.  Short of the end it requests the next frame.
Tick(time) ==
    /\ animationFrame.pending
    /\ LET last == IF lastFrameTimeRef = Null THEN time ELSE lastFrameTimeRef
           increment == TickIncrement(time - last, basePointsPerSecond, animationFrame.speed)
           nextPosition == playbackPositionRef + increment
       IN  IF ReachesEnd(nextPosition, animationFrame.len)
           THEN /\ playbackPositionRef' = (animationFrame.len - 1) * PosScale
                /\ playbackPosition' = playbackPositionRef'
                /\ isPlaying' = FALSE
                /\ lastFrameTimeRef' = Null
                /\ animationFrame' = NoFrame
                /\ pendingFrames' = pendingFrames - 1
           ELSE /\ playbackPositionRef' = nextPosition
                /\ playbackPosition' = nextPosition
                /\ lastFrameTimeRef' = 0
                /\ pendingFrames' = pendingFrames - 1 + 1
                /\ UNCHANGED <<isPlaying, animationFrame>>
    /\ lastOp' = "tick" /\ lastArg' = time /\ lastFrom' = NoFrom
    /\ UNCHANGED otherVars
    /\ UNCHANGED <<revision, selectedDevice, loading, error, routeData, routeLineData,
                   movingPoints, controlsExpanded, playbackSpeed, isScrubbing,
                   progressWidth, speedWidth>>
    /\ DisplayCourseRender(FALSE)

Next ==
    \/ SelectDevice
    \/ HandleLoadRouteNoDevice
    \/ HandleLoadRouteStart
    \/ \E resp \in Responses : HandleLoadRouteLoaded(resp)
    \/ \E resp \in Responses : HandleLoadRouteFailed(resp)
    \/ HandleChangeRoute
    \/ ProgressLayout
    \/ SpeedLayout
    \/ Play
    \/ Pause
    \/ \E locationX \in LocationXs : ProgressTouch(locationX, TRUE)
    \/ \E locationX \in LocationXs : ProgressTouch(locationX, FALSE)
    \/ ProgressRelease
    \/ \E locationX \in LocationXs : SpeedTouch(locationX)
    \/ \E time \in FrameTimes : Tick(time)

Spec == Init /\ [][Next]_vars

\* The screen with loads of SampleResponses and a user who only drags the
\* progress slider: the states in which a track is sampled and summarised.
SampleNext ==
    \/ SelectDevice
    \/ HandleLoadRouteStart
    \/ \E resp \in SampleResponses : HandleLoadRouteLoaded(resp)
    \/ HandleChangeRoute
    \/ ProgressLayout
    \/ \E locationX \in LocationXs : ProgressTouch(locationX, TRUE)

SampleSpec == Init /\ [][SampleNext]_vars

\* Playback that is left alone: while playing, nobody pauses, seeks, changes
\* the rate or reloads, and frames keep arriving some time apart.
LiveNext ==
    \/ SelectDevice
    \/ ~isPlaying /\ HandleLoadRouteStart
    \/ ~isPlaying /\ \E resp \in Responses : HandleLoadRouteLoaded(resp)
    \/ ProgressLayout
    \/ SpeedLayout
    \/ Play
    \/ ~isPlaying /\ \E locationX \in LocationXs : ProgressTouch(locationX, TRUE)
    \/ ~isPlaying /\ \E locationX \in LocationXs : SpeedTouch(locationX)
    \/ \E time \in FrameTimes : Tick(time)

LiveSpec ==
    /\ Init
    /\ [][LiveNext]_vars
    /\ WF_vars(\E time \in FrameTimes \ {0} : Tick(time))

\* The same user with loads of MalformedResponses
MalformedNext ==
    \/ SelectDevice
    \/ HandleLoadRouteStart
    \/ \E resp \in MalformedResponses : HandleLoadRouteLoaded(resp)
    \/ HandleChangeRoute
    \/ ProgressLayout
    \/ \E locationX \in LocationXs : ProgressTouch(locationX, TRUE)

MalformedSpec == Init /\ [][MalformedNext]_vars

\* ------------------------------------------------------------------------
\* interpolateBearing on its own
\* ------------------------------------------------------------------------

\* bearings on both sides of north and of south, below 0 and above 360
BearingInputs == {0 - 350, 0 - 10, 0, 10, 170, 180, 190, 350, 370}

\* t in hundredths: both ends, the middle and the smoother's 0.15
BearingTs == {0, 15, 50, 100}

BearingInit ==
    /\ HistoryInit /\ PollIdle /\ FetchMounted
    /\ bearingFrom \in BearingInputs
    /\ bearingTo \in BearingInputs
    /\ bearingT \in BearingTs
    /\ bearingResult = Null

CallInterpolateBearing ==
    /\ bearingResult = Null
    /\ bearingResult' = interpolateBearing(bearingFrom, bearingTo, bearingT, 100)
    /\ UNCHANGED <<bearingFrom, bearingTo, bearingT>>
    /\ UNCHANGED <<historyVars, pollVars, fetchVars>>

BearingNext == CallInterpolateBearing

BearingSpec == BearingInit /\ [][BearingNext]_vars

\* ------------------------------------------------------------------------
\* startLocationPolling and the effects that call it (src/lib/theme.ts,
\* tracking.tsx, home_old.tsx)
\* ------------------------------------------------------------------------

Poll(deviceId, stage) == [deviceId |-> deviceId, stage |-> stage]

\* The tracked device changes (home_old.tsx also deselects): the cleanup of
\* the polling effect runs clearInterval, which stops future polls and leaves
\* the polls in flight alone; then the effect calls startLocationPolling for
\* the new device, if there is one.
TrackDevice(deviceId) ==
    /\ deviceId # trackedDevice
    /\ trackedDevice' = deviceId
    /\ interval' = deviceId
    /\ pollOp' = "track" /\ pollDevice' = deviceId
    /\ UNCHANGED <<inFlight, currentLocation>>
    /\ UNCHANGED <<historyVars, bearingVars, fetchVars>>

\* the interval fires: fetch(`/(api)/locations/${deviceId}/latest`) is sent.
\* inFlight is a set: of the polls of one device that wait at the same await,
\* one is kept.
IntervalFires ==
    /\ interval # Null
    /\ inFlight' = inFlight \cup {Poll(interval, "fetch")}
    /\ pollOp' = "poll" /\ pollDevice' = interval
    /\ UNCHANGED <<trackedDevice, interval, currentLocation>>
    /\ UNCHANGED <<historyVars, bearingVars, fetchVars>>

\* await fetch(...) returns a response that is ok: response.json() is awaited
FetchAnswered(poll) ==
    /\ poll \in inFlight /\ poll.stage = "fetch"
    /\ inFlight' = (inFlight \ {poll}) \cup {Poll(poll.deviceId, "json")}
    /\ pollOp' = "answer" /\ pollDevice' = poll.deviceId
    /\ UNCHANGED <<trackedDevice, interval, currentLocation>>
    /\ UNCHANGED <<historyVars, bearingVars, fetchVars>>

\* the response is not ok, or fetch or response.json() rejects: console.error
PollFailed(poll) ==
    /\ poll \in inFlight
    /\ inFlight' = inFlight \ {poll}
    /\ pollOp' = "failed" /\ pollDevice' = poll.deviceId
    /\ UNCHANGED <<trackedDevice, interval, currentLocation>>
    /\ UNCHANGED <<historyVars, bearingVars, fetchVars>>

\* await response.json() returns: callback(data), which is
\* setCurrentLocation(location)
CallbackInvoked(poll) ==
    /\ poll \in inFlight /\ poll.stage = "json"
    /\ inFlight' = inFlight \ {poll}
    /\ currentLocation' = poll.deviceId
    /\ pollOp' = "callback" /\ pollDevice' = poll.deviceId
    /\ UNCHANGED <<trackedDevice, interval>>
    /\ UNCHANGED <<historyVars, bearingVars, fetchVars>>

PollNext ==
    \/ \E deviceId \in Devices \cup {Null} : TrackDevice(deviceId)
    \/ IntervalFires
    \/ \E poll \in inFlight : FetchAnswered(poll)
    \/ \E poll \in inFlight : PollFailed(poll)
    \/ \E poll \in inFlight : CallbackInvoked(poll)

PollSpec == Init /\ [][PollNext]_vars

\* ------------------------------------------------------------------------
\* useFetch with the cache (src/lib/theme.ts)
\* ------------------------------------------------------------------------

CACHE_TTL_MS == 30000

\* the ages the model tells apart: below the time to live, and not
CacheAges == 0..(CACHE_TTL_MS \div ClockStepMs)

\* hit && Date.now() - hit.at < CACHE_TTL_MS
CacheHit(u) == cache[u] # Null /\ cache[u] * ClockStepMs < CACHE_TTL_MS

\* fetchData(bypassCache) for the url `u` of the callback
fetchData(u, bypassCache) ==
    /\ fetchError' = FALSE
    /\ IF ~bypassCache /\ CacheHit(u)
       THEN /\ data' = u
            /\ fetchLoading' = FALSE
            /\ fetchIssued' = FALSE
            /\ UNCHANGED requests
       ELSE /\ fetchLoading' = TRUE
            /\ requests' = requests \cup {u}
            /\ fetchIssued' = TRUE
            /\ UNCHANGED data
    /\ UNCHANGED cache

\* the hook is rendered with another url: fetchData is a new callback and
\* the effect on [fetchData] calls fetchData()
RenderWithUrl(u) ==
    /\ u # url
    /\ url' = u
    /\ fetchData(u, FALSE)
    /\ fetchOp' = "url"
    /\ UNCHANGED <<historyVars, bearingVars, pollVars>>

\* refetch: fetchData(true)
refetch ==
    /\ fetchData(url, TRUE)
    /\ fetchOp' = "refetch"
    /\ UNCHANGED url
    /\ UNCHANGED <<historyVars, bearingVars, pollVars>>

\* await fetchAPI(u) returns in the fetchData that was called for u:
\* cache.set(u, ...), setData(result), and setLoading(false) in finally
FetchResolved(u) ==
    /\ u \in requests
    /\ requests' = requests \ {u}
    /\ cache' = [cache EXCEPT ![u] = 0]
    /\ data' = u
    /\ fetchLoading' = FALSE
    /\ fetchOp' = "resolved" /\ fetchIssued' = FALSE
    /\ UNCHANGED <<url, fetchError>>
    /\ UNCHANGED <<historyVars, bearingVars, pollVars>>

\* await fetchAPI(u) throws: setError(message), setLoading(false)
FetchRejected(u) ==
    /\ u \in requests
    /\ requests' = requests \ {u}
    /\ fetchError' = TRUE
    /\ fetchLoading' = FALSE
    /\ fetchOp' = "rejected" /\ fetchIssued' = FALSE
    /\ UNCHANGED <<url, data, cache>>
    /\ UNCHANGED <<historyVars, bearingVars, pollVars>>

\* Date.now() moves on by one step; entries as old as the time to live age
\* no further
ClockStep ==
    /\ \E u \in Urls : cache[u] # Null /\ cache[u] * ClockStepMs < CACHE_TTL_MS
    /\ cache' = [u \in Urls |->
                    IF cache[u] = Null \/ cache[u] * ClockStepMs >= CACHE_TTL_MS
                    THEN cache[u] ELSE cache[u] + 1]
    /\ fetchOp' = "clock" /\ fetchIssued' = FALSE
    /\ UNCHANGED <<url, data, fetchLoading, fetchError, requests>>
    /\ UNCHANGED <<historyVars, bearingVars, pollVars>>

FetchNext ==
    \/ \E u \in Urls : RenderWithUrl(u)
    \/ refetch
    \/ \E u \in Urls : FetchResolved(u)
    \/ \E u \in Urls : FetchRejected(u)
    \/ ClockStep

FetchSpec == Init /\ [][FetchNext]_vars

\* ------------------------------------------------------------------------
\* Properties
\* ------------------------------------------------------------------------

N == Len(playbackPoints)

\* the last index of the track, in playhead units
LastIndex == (N - 1) * PosScale

TypeOK ==
    /\ playbackPosition = playbackPositionRef
    /\ animationFrame.pending = (isPlaying /\ N > 0)
    /\ animationFrame.pending =>
           animationFrame.len = N /\ animationFrame.speed = playbackSpeed
    /\ ~animationFrame.pending => lastFrameTimeRef = Null
    /\ pendingFrames \in Nat

\* C1: in every reachable state the playhead lies in [0, N-1], and is 0 when
\* the track has 0 or 1 points.
PositionInTrack ==
    /\ playbackPosition >= 0
    /\ playbackPosition <= (IF N >= 1 THEN LastIndex ELSE 0)

\* C2: a tick never decreases the playhead and never takes it beyond N-1.
TickMonotone ==
    [][lastOp' = "tick" =>
          /\ playbackPosition' >= playbackPosition
          /\ playbackPosition' <= LastIndex]_vars

TickAdvanced ==
    /\ lastOp = "tick" /\ lastArg > 0
    /\ isPlaying
    /\ playbackPosition > 0 /\ playbackPosition < LastIndex

\* C3: the tick that brings the playhead to N-1 stops the engine in the same
\* step; while the engine is idle no frame is pending, so no tick changes the
\* playhead or the flag; play() at N-1 rewinds to 0 and runs again.
EndOfTrackStop ==
    /\ [](~isPlaying => ~animationFrame.pending)
    /\ [][/\ (lastOp' = "tick" /\ playbackPosition' = LastIndex) =>
                 (~isPlaying' /\ ~animationFrame'.pending)
          /\ (lastOp' = "tick" /\ ~isPlaying) =>
                 UNCHANGED <<playbackPosition, isPlaying>>
          /\ (lastOp' = "play" /\ playbackPosition = LastIndex) =>
                 (playbackPosition' = 0 /\ isPlaying')]_vars

StoppedAtEnd ==
    /\ lastOp = "tick" /\ lastArg > 0
    /\ N >= 2
    /\ playbackPosition = LastIndex
    /\ ~isPlaying

\* C4: pause() stops the engine and leaves the playhead exactly as it was.
PauseRetainsPosition ==
    [][lastOp' = "pause" =>
          (~isPlaying' /\ playbackPosition' = playbackPosition)]_vars

\* C5: play() starts the engine; a playhead at the final index N-1 is first
\* reset to 0, any other playhead is left unchanged.
PlayFromIdle ==
    [][lastOp' = "play" =>
          /\ ~isPlaying /\ isPlaying'
          /\ playbackPosition' =
                 (IF playbackPosition = LastIndex THEN 0 ELSE playbackPosition)]_vars

PlayedFromEnd ==
    /\ lastOp = "play"
    /\ N >= 2
    /\ lastFrom.position = LastIndex
    /\ playbackPosition = 0
    /\ isPlaying

\* C6: on a track of length 0 or 1, after play() and after any ticks that
\* follow it, playing is false and the playhead is 0.
DegeneratePlayIsNoOp ==
    (N <= 1 /\ lastOp \in {"play", "tick"}) => (~isPlaying /\ playbackPosition = 0)

\* C7: seek(fraction) sets the playhead to fraction * (N-1), the fraction
\* locationX / progressWidth first clamped to [0, 1], in either state, and
\* changes neither playing nor the rate.
SeekSetsPosition ==
    [][(lastOp' = "seek" /\ progressWidth > 0 /\ N >= 1) =>
          LET touched == lastArg'
              fraction == IF touched < 0 THEN 0
                          ELSE IF touched > progressWidth THEN progressWidth
                          ELSE touched
          IN  /\ playbackPosition' * progressWidth = fraction * LastIndex
              /\ playbackPositionRef' = playbackPosition'
              /\ isPlaying' = isPlaying
              /\ playbackSpeed' = playbackSpeed]_vars

SoughtWhileRunning ==
    /\ lastOp = "seek" /\ lastArg > progressWidth /\ progressWidth > 0
    /\ N >= 2
    /\ isPlaying
    /\ playbackPosition = LastIndex

\* C8: a tick happens only while the engine is running, and sets the playhead
\* to min(position + deltaSeconds * basePointsPerSecond * rate, N-1) with the
\* revision's basePointsPerSecond; while idle no frame is pending.
TickAdvances ==
    /\ [](animationFrame.pending => isPlaying)
    /\ [][lastOp' = "tick" =>
             LET deltaMs == IF lastFrameTimeRef = Null THEN 0
                            ELSE (lastArg' - lastFrameTimeRef) * FrameMs
                 base == IF revision = "current" THEN BasePointsPerSecondCurrent
                         ELSE BasePointsPerSecondOlder
                 \* both sides in 1/10000 of a playhead unit
                 target == playbackPosition * 10000
                               + deltaMs * base * playbackSpeed * PosScale
             IN  /\ isPlaying
                 /\ playbackPosition' * 10000 = Min(target, LastIndex * 10000)]_vars

TickedAtOtherRate ==
    /\ lastOp = "tick" /\ lastArg > 0
    /\ playbackSpeed # InitialSpeedTenths
    /\ isPlaying
    /\ playbackPosition > 0 /\ playbackPosition < LastIndex

\* C9: the rate multiplier always lies in [0.5, 3.0], whatever the touch.
RateInDomain == playbackSpeed >= MinSpeedTenths /\ playbackSpeed <= MaxSpeedTenths

RateClampedAtTop ==
    /\ lastOp = "speed" /\ speedWidth > 0 /\ lastArg > speedWidth
    /\ playbackSpeed = MaxSpeedTenths

\* C10: a loaded track leaves the playhead at 0 and the engine not playing,
\* whatever they were before the load.
LoadResetsPlayback ==
    lastOp = "load_ok" =>
        /\ playbackPosition = 0
        /\ playbackPositionRef = 0
        /\ ~isPlaying
        /\ ~animationFrame.pending

LoadedWhilePlaying ==
    /\ lastOp = "load_ok"
    /\ lastFrom.playing /\ lastFrom.position > 0
    /\ N >= 2


\* the raw course of the first sample of the loaded track
FirstRawCourse == animatedPoint(playbackPoints, 0).course

\* C11: right after a load that brought a track, the smoothed course is the
\* first raw course of that track, whatever was smoothed before.
SmootherResetOnLoad ==
    (lastOp = "load_ok" /\ N > 0) => smoothedCourse = FirstRawCourse

\* the playback points are the densified route line
LineShown == Len(movingPoints) = 0 /\ ~routeLineData.isNull /\ Len(routeLineData.coordinates) > 0

\* the step of the densification, in coordinate units
StepUnits == InterpolateStepMeters * CoordScale

\* C12: consecutive points of the densified line are at most stepMeters apart.
DensifiedGapsWithinStep ==
    LineShown =>
        \A k \in 1..(N - 1) :
            haversineMeters(playbackPoints[k].coordinates,
                            playbackPoints[k + 1].coordinates) <= StepUnits

\* a is b with some elements left out
RECURSIVE IsSubsequence(_, _)
IsSubsequence(a, b) ==
    IF a = <<>> THEN TRUE
    ELSE IF b = <<>> THEN FALSE
    ELSE IF Head(a) = Head(b) THEN IsSubsequence(Tail(a), Tail(b))
    ELSE IsSubsequence(a, Tail(b))

\* C13: the densified line starts and ends with the first and the last vertex
\* of the route line and holds every vertex of it, unaltered and in order.
DensifyKeepsVertices ==
    LineShown =>
        LET coords == routeLineData.coordinates
            out == [k \in 1..N |-> playbackPoints[k].coordinates]
        IN  /\ out[1] = coords[1]
            /\ out[Len(out)] = coords[Len(coords)]
            /\ IsSubsequence(coords, out)

\* a line of three vertices is shown with synthetic points between them
DensifiedWithSynthetic ==
    LineShown /\ Len(routeLineData.coordinates) >= 3 /\ N > Len(routeLineData.coordinates)

\* C14: a seek between two ticks wins: the ref the tick reads always holds the
\* playhead, so the tick after a seek leaves the playhead at
\* min(sought + increment, N-1), never at a value made from the playhead of
\* before the seek.
SeekWinsRace ==
    /\ [](playbackPositionRef = playbackPosition)
    /\ [][(lastOp = "seek" /\ lastOp' = "tick") =>
             LET deltaMs == IF lastFrameTimeRef = Null THEN 0
                            ELSE (lastArg' - lastFrameTimeRef) * FrameMs
                 target == playbackPosition * 10000
                               + deltaMs * basePointsPerSecond * playbackSpeed * PosScale
             IN  /\ playbackPosition' >= playbackPosition
                 /\ playbackPosition' * 10000 = Min(target, LastIndex * 10000)]_vars

\* a seek to the inside of the track while the frame loop is running, after
\* a frame and before the next one
SoughtBetweenTicks ==
    /\ lastOp = "seek" /\ progressWidth > 0
    /\ isPlaying /\ animationFrame.pending /\ lastFrameTimeRef # Null
    /\ playbackPosition > 0 /\ playbackPosition < LastIndex

\* the sample at the playhead
Sample == animatedPoint(playbackPoints, playbackPosition)

\* a reported value: not null, not undefined, not NaN
Known(value) == value # Null /\ value # Undefined /\ value # NaN

\* the speed of a point, 0 when it has none
SpeedOf(point) == IF Known(point.speed) THEN point.speed ELSE 0

\* the sample is the point: its coordinate, its speed, and its course when it
\* reports one
SampleIsPoint(point) ==
    /\ Sample.coordinates = point.coordinates
    /\ Sample.speed = SpeedOf(point)
    /\ Known(point.course) => Sample.course = point.course

\* C15: after seek(0) the sample is the first point, after seek(1) the last
\* point (coordinate, speed, and the course the point reports).
SeekEndsExact ==
    (lastOp = "seek" /\ progressWidth > 0 /\ N >= 1) =>
        /\ lastArg <= 0 => SampleIsPoint(playbackPoints[1])
        /\ lastArg >= progressWidth => SampleIsPoint(playbackPoints[N])

\* seek(1) on a track of three points whose last course differs from the others
SoughtToLastPoint ==
    /\ lastOp = "seek" /\ progressWidth > 0 /\ lastArg >= progressWidth
    /\ N >= 3 /\ playbackPosition = LastIndex
    /\ Known(playbackPoints[N].course)
    /\ playbackPoints[N].course # playbackPoints[1].course
    /\ playbackPoints[N].coordinates # playbackPoints[1].coordinates

\* C16: the sample's course is interpolateBearing of the two bracketing
\* courses when both are known, and in every other case the bearing from
\* points[index] to points[nextIndex] (0 when they are one point).
SampleCourseRule ==
    N >= 1 =>
        LET index == SampleIndex(playbackPoints, playbackPosition)
            nextIndex == Min(index + 1, N)
            from == playbackPoints[index]
            to == playbackPoints[nextIndex]
        IN  Sample.course =
                IF Known(from.course) /\ Known(to.course)
                THEN interpolateBearing(from.course, to.course,
                                        SampleT(playbackPoints, playbackPosition), PosScale)
                ELSE bearingDegrees(from.coordinates, to.coordinates)

\* C17: the sample brackets the playhead by index = floor(position) and
\* nextIndex = min(index + 1, N - 1), both inside the track, and its
\* coordinate and speed are the interpolation by t = position - index of the
\* two points; in the middle of the two-point scenario track it is the
\* midpoint, speed 20, course 0.
SampleFollowsBrackets ==
    N >= 1 =>
        LET index == playbackPosition \div PosScale
            nextIndex == IF index + 1 <= N - 1 THEN index + 1 ELSE N - 1
            t == playbackPosition - index * PosScale
            from == playbackPoints[index + 1]
            to == playbackPoints[nextIndex + 1]
        IN  /\ index >= 0 /\ index <= N - 1
            /\ t >= 0 /\ t <= PosScale
            /\ \A k \in 1..2 :
                   Sample.coordinates[k] =
                       from.coordinates[k]
                           + ((to.coordinates[k] - from.coordinates[k]) * t) \div PosScale
            /\ Sample.speed =
                   SpeedOf(from) + ((SpeedOf(to) - SpeedOf(from)) * t) \div PosScale
            /\ (movingPoints = withBearing(ScenarioTrack) /\ 2 * playbackPosition = PosScale)
                   => /\ Sample.coordinates = North(2)
                      /\ Sample.speed = 20
                      /\ Sample.course = 0

\* the playhead in the middle of the two-point scenario track
ScenarioMidpoint ==
    /\ lastOp = "seek"
    /\ movingPoints = withBearing(ScenarioTrack)
    /\ 2 * playbackPosition = PosScale

\* the moving points are the normalisation of the route answer's features
\* (the history answer of these loads has the same features)
HistoryNormalised ==
    Len(routeData.features) > 0 /\ movingPoints = withBearing(routeData.features)

\* C18: normalisation gives every point but the last whose course is absent
\* (null or not reported) the bearing to the next point, and leaves every
\* reported course as it is.
BearingFillIn ==
    HistoryNormalised =>
        \A idx \in 1..Len(movingPoints) :
            LET raw == routeData.features[idx]
            IN  /\ Known(raw.course) => movingPoints[idx].course = raw.course
                /\ (~Known(raw.course) /\ idx < Len(movingPoints)) =>
                       movingPoints[idx].course =
                           bearingDegrees(raw.coordinates,
                                          routeData.features[idx + 1].coordinates)

\* the summary of the track on the screen
Summary == routeSummary(playbackPoints)

\* C19: the duration of the summary is the last timestamp minus the first
\* when both points carry one, and 0 when one of them is missing.
DurationIsSpan ==
    (revision = "current" /\ N >= 1) =>
        LET firstTs == playbackPoints[1].timestamp
            lastTs == playbackPoints[N].timestamp
        IN  Summary.durationSec =
                IF Known(firstTs) /\ Known(lastTs) THEN lastTs - firstTs ELSE 0

\* the sum of the distances of the pairs k, k+1 for k below n
RECURSIVE GapsBelow(_)
GapsBelow(n) ==
    IF n <= 1 THEN 0
    ELSE GapsBelow(n - 1)
             + haversineMeters(playbackPoints[n - 1].coordinates,
                               playbackPoints[n].coordinates)

\* C20: the summary of a loaded track has the sum of the distances of all
\* consecutive pairs (0 for no or one point) and the number of points.
SummaryAdditive ==
    (revision = "current" /\ ~routeData.isNull) =>
        /\ ~Summary.isNull
        /\ Summary.distanceKm = GapsBelow(N)
        /\ Summary.pointCount = N

\* C21: interpolateBearing returns a bearing in [0, 360) on the shorter way
\* round: normalize(from + delta * t) for the delta in [-180, 180] that leads
\* from `from` to `to`; t = 0 gives normalize(from), t = 1 normalize(to), and
\* interpolateBearing(350, 10, 0.5) is 0.
BearingOnShorterPath ==
    bearingResult # Null =>
        /\ bearingResult >= 0 /\ bearingResult < 360
        /\ \E delta \in (0 - 180)..180 :
               /\ (delta - (bearingTo - bearingFrom)) % 360 = 0
               /\ (bearingResult - (bearingFrom + (delta * bearingT) \div 100)) % 360 = 0
        /\ bearingT = 0 => (bearingResult - bearingFrom) % 360 = 0
        /\ bearingT = 100 => (bearingResult - bearingTo) % 360 = 0
        /\ (bearingFrom = 350 /\ bearingTo = 10 /\ bearingT = 50) => bearingResult = 0

\* interpolateBearing(350, 10, 0.5) has returned
WraparoundInterpolated ==
    bearingFrom = 350 /\ bearingTo = 10 /\ bearingT = 50 /\ bearingResult # Null

\* a (longitude, latitude) pair of two finite numbers
IsFinitePair(coord) == Len(coord) = 2 /\ Known(coord[1]) /\ Known(coord[2])

\* C22: no point of the playback track has a coordinate that is not a finite
\* (longitude, latitude) pair, whichever path built the track.
PlaybackPointsFinite ==
    \A k \in 1..N : IsFinitePair(playbackPoints[k].coordinates)

\* C23: every tick or seek that moves the playhead over a track applies the
\* smoother once to the course of the new sample: the smoothed course becomes
\* that course when nothing was remembered, and
\* interpolateBearing(prior, course, 0.15) otherwise, also when the course is
\* the same as that of the sample before.
SmootherAppliedPerReading ==
    [][(lastOp' \in {"seek", "tick"} /\ playbackPosition' # playbackPosition /\ N > 0)
          => \E target \in {animatedPoint(playbackPoints, playbackPosition').course} :
                 smoothedCourse' = IF smoothedCourse = Null THEN target
                                   ELSE interpolateBearing(smoothedCourse, target, 15, 100)]_vars

\* C24: while the progress slider is being dragged (isScrubbing), no frame
\* of the playback loop changes the position.
TicksSuppressedWhileScrubbing ==
    [][(isScrubbing /\ lastOp' = "tick") => playbackPosition' = playbackPosition]_vars

\* C25: at most one callback of the playback loop is pending, it is the one
\* of the loop started for the current playing flag, track and rate, and none
\* is pending while paused or without a track; so a frame changes the
\* position only while playing over a track.
OneFramePending ==
    /\ [](pendingFrames <= 1)
    /\ [](pendingFrames = 1 =>
             /\ isPlaying /\ N > 0
             /\ animationFrame = Frame(N, playbackSpeed))
    /\ []((~isPlaying \/ N = 0) => pendingFrames = 0)
    /\ [][(lastOp' = "tick" /\ playbackPosition' # playbackPosition)
             => (isPlaying /\ N > 0 /\ pendingFrames = 1)]_vars

\* the rate was changed while playing: the loop was restarted with a frame
\* pending
LoopRestartedWhilePending ==
    /\ lastOp = "speed" /\ isPlaying /\ N > 0 /\ pendingFrames = 1
    /\ animationFrame.speed = playbackSpeed /\ playbackSpeed # InitialSpeedTenths

\* C26: the frame-time reference is null whenever the engine is idle and
\* after every step that restarts the loop (a change of the playing flag, of
\* the rate, or of the state the track is derived from), and a frame that
\* finds it null leaves the position where it was, however late it fires.
IdleTimeNotCounted ==
    /\ []((~isPlaying \/ N = 0) => lastFrameTimeRef = Null)
    /\ [][(isPlaying' # isPlaying \/ playbackSpeed' # playbackSpeed
              \/ movingPoints' # movingPoints \/ routeLineData' # routeLineData
              \/ routeData' # routeData) => lastFrameTimeRef' = Null]_vars
    /\ [][(lastOp' = "tick" /\ lastFrameTimeRef = Null)
             => playbackPosition' = playbackPosition]_vars

\* the first frame after play fired as late as a frame can, and the playhead
\* is still at the start
FirstFrameAfterPlay ==
    /\ lastOp = "tick" /\ lastArg = MaxFrameGap /\ isPlaying /\ N > 1
    /\ playbackPosition = 0 /\ lastFrameTimeRef = 0

\* C27: playback over a track of two points or more that is left alone
\* while frames keep arriving reaches the last index and becomes idle.
PlaybackTerminates ==
    (isPlaying /\ N >= 2) ~> (~isPlaying /\ playbackPosition = LastIndex)

\* playback ran from a seek into the track to the end, at another rate
RanToTheEnd ==
    /\ lastOp = "tick" /\ ~isPlaying /\ N >= 3 /\ playbackPosition = LastIndex
    /\ playbackSpeed # InitialSpeedTenths

\* C28: a load whose route or history request was rejected clears the track
\* (routeData and routeLineData null, movingPoints empty) and sets the error;
\* a load in which only the route-line request was rejected succeeds; loading
\* is false after every load.
LoadFailureHandled ==
    [][lastOp' \in {"load_ok", "load_failed"} =>
          /\ ~loading'
          /\ (lastArg' % 2 = 1 \/ (lastArg' \div 2) % 2 = 1) =>
                 /\ lastOp' = "load_failed"
                 /\ routeData' = NullRoute /\ routeLineData' = NullLine
                 /\ movingPoints' = <<>>
                 /\ error' = "failed"
          /\ lastArg' = 4 => (lastOp' = "load_ok" /\ ~routeData'.isNull)]_vars

\* the history request was rejected while a track was loaded and the
\* playhead was inside it
LoadFailedOverTrack ==
    /\ lastOp = "load_failed" /\ lastArg = 2 /\ lastFrom.position > 0
    /\ routeData = NullRoute /\ N = 0 /\ ~loading

\* C29: the location callback is invoked only for the device whose polling
\* has not been cleaned up, so the stored location is never one polled for a
\* device that is tracked no more.
CallbackOnlyWhilePolling ==
    [][pollOp' = "callback" => (interval # Null /\ pollDevice' = interval)]_vars

\* C30: a response to a request issued for an earlier url is never stored
\* as the data of the hook: after await fetchAPI returns, data belongs to the
\* current url.
DataBelongsToUrl ==
    [][fetchOp' = "resolved" => data' = url']_vars

====
